---- MODULE Spec2Model ----
(***************************************************************************)
(* Realtime session and request-lifecycle layer of the call-waiter web     *)
(* client: UrlUtilsService, AuthService, AuthInterceptor, SocketService,   *)
(* RequestStateService and the waiter dashboard's handlers.                *)
(***************************************************************************)
EXTENDS Integers, Sequences, FiniteSets, TLC

(***************************************************************************)
(* Bounds of the model.                                                    *)
(***************************************************************************)
MaxLabels == 4
MaxTok == 3
MaxInFlight == 2
MaxSockets == 3
NumReqs == 2
MaxLen == 3
MaxSnap == 2
MaxNow == 45
MaxCalls == 5
MaxRateNow == 4

(***************************************************************************)
(* UrlUtilsService.extractTenantFromUrl.  A host name is the sequence of   *)
(* its dot-separated labels; the query is the value of                     *)
(* URLSearchParams.get('tenant'), NoParam standing for null.               *)
(***************************************************************************)
NoParam == "<null>"
Labels == {"www", "localhost", "mylocalhost", "a", "example", "com", "192", "168"}
Params == {NoParam, "", "x", "www"}
Hosts == UNION {[1..n -> Labels] : n \in 1..MaxLabels}

\* hostname.includes('localhost'): the needle has no dot, so it lies in one label
IncludesLocalhost(h) == \E i \in 1..Len(h) : h[i] \in {"localhost", "mylocalhost"}

\* /^\d+$/ on one label
IsDigits(l) == l \in {"192", "168"}

\* /^\d+\.\d+\.\d+\.\d+$/.test(hostname)
IsIpAddress(h) == Len(h) = 4 /\ \A i \in 1..4 : IsDigits(h[i])

TenantError == [ok |-> FALSE, val |-> "TenantRequired"]
TenantOk(v) == [ok |-> TRUE, val |-> v]

extractTenantFromUrl(q, h) ==
    IF q # NoParam /\ q # "" THEN TenantOk(q)
    ELSE IF IncludesLocalhost(h)
         THEN IF Len(h) >= 2 /\ h[1] # "localhost" /\ h[1] # "www"
              THEN TenantOk(h[1]) ELSE TenantError
    ELSE IF Len(h) > 2 /\ h[1] # "www" THEN TenantOk(h[1])
    ELSE IF IsIpAddress(h) THEN TenantError
    ELSE TenantError

(***************************************************************************)
(* State.                                                                  *)
(***************************************************************************)
VARIABLES
    search,               \* window.location.search: the 'tenant' parameter
    hostname,             \* window.location.hostname
    tenantResult,         \* last result of extractTenantFromUrl
    accessToken,          \* localStorage 'accessToken'
    refreshTokenStored,   \* localStorage 'refreshToken' is present
    userStored,           \* localStorage 'user' is present
    isAuthenticated,      \* AuthService.isAuthenticated signal
    currentUser,          \* AuthService.currentUser signal is non-null
    tokenRefreshed,       \* value of AuthService._tokenRefreshedSubject
    nextTok,              \* the next token the backend issues
    inflight,             \* POST /api/auth/refresh calls in flight, by subscriber
    icVersion,            \* which AuthInterceptor of auth.interceptor.ts is built
    isRefreshing,         \* AuthInterceptor._isRefreshing
    refreshTokenSubject,  \* value of AuthInterceptor._refreshTokenSubject
    req,                  \* the HTTP requests going through AuthInterceptor
    constructed,          \* SocketService has been constructed
    sockets,              \* every socket SocketService created; the last is _socket
    refreshFailed,        \* a refresh has failed since the last successful login
    lateIssue,            \* a refresh call was issued after a failed one, no login between
    prevRooms,            \* the rooms joined on _socket's previous connection
    connectedOnce,        \* the channel has been connected before
    dashMounted,          \* WaiterDashboardComponent is mounted
    snapshots,            \* getActiveRequestsFromDb calls in flight
    requests,             \* RequestStateService._requestsSignal
    lastEvent,            \* what the request collection processed last
    furthest,             \* per request id, the furthest status the collection has shown
    custMem,              \* the signals of CustomerStateService
    custStored,           \* sessionStorage 'waiter_customer_state'
    effectPending,        \* the auto-save effect is scheduled
    custConstructed,      \* CustomerStateService has been constructed
    custMounted,          \* CustomerComponent is mounted
    timerOn,              \* CustomerComponent._timerInterval is set
    lastCust,             \* what the customer session processed last
    now,                  \* Date.now(), in minutes for the session, in window units for the limiter
    rateLimits,           \* RateLimitService._rateLimits
    rateCalls             \* the calls of checkRateLimit so far, with their results

sessionVars == <<accessToken, refreshTokenStored, userStored, isAuthenticated,
                 currentUser, tokenRefreshed, inflight, refreshFailed, lateIssue>>
authVars == <<accessToken, refreshTokenStored, userStored, isAuthenticated,
              currentUser, tokenRefreshed, nextTok, inflight, refreshFailed, lateIssue>>
icVars == <<icVersion, isRefreshing, refreshTokenSubject, req>>
sockVars == <<constructed, sockets, prevRooms, connectedOnce>>
storeVars == <<dashMounted, snapshots, requests, lastEvent, furthest>>
urlVars == <<search, hostname, tenantResult>>
custVars == <<custMem, custStored, effectPending, custConstructed, custMounted,
              timerOn, lastCust>>
rateVars == <<rateLimits, rateCalls>>
extVars == <<custVars, rateVars, now>>

(***************************************************************************)
(* Tokens.  A token is its identity and what the client's decoder sees in  *)
(* it: "valid" (exp at least 300 s ahead), "expiring" (exp less than 300 s *)
(* but more than 30 s ahead), "expired" (exp <= now + 30) or "malformed"   *)
(* (the payload does not decode).                                          *)
(***************************************************************************)
NoToken == [id |-> 0, kind |-> "none"]
Kinds == {"valid", "expiring", "expired", "malformed"}

\* SocketService._isTokenExpired
IsTokenExpired(t) == t.kind \in {"expired", "malformed"}

NoEvent == [name |-> "none", id |-> 0, status |-> "none", had |-> 0]

Origins == {"init", "handler", "auto"}
Reqs == 1..NumReqs

\* the tenant of the current page, as every caller resolves it
Tenant == extractTenantFromUrl(search, hostname)

(***************************************************************************)
(* The services' mutable state as one record, so that a handler's nested   *)
(* synchronous calls can be composed.                                      *)
(***************************************************************************)
Cur == [accessToken |-> accessToken, refreshTokenStored |-> refreshTokenStored,
        userStored |-> userStored, isAuthenticated |-> isAuthenticated,
        currentUser |-> currentUser, tokenRefreshed |-> tokenRefreshed,
        inflight |-> inflight, sockets |-> sockets,
        refreshFailed |-> refreshFailed, lateIssue |-> lateIssue,
        prevRooms |-> prevRooms]

Commit(s) ==
    /\ accessToken' = s.accessToken
    /\ refreshTokenStored' = s.refreshTokenStored
    /\ userStored' = s.userStored
    /\ isAuthenticated' = s.isAuthenticated
    /\ currentUser' = s.currentUser
    /\ tokenRefreshed' = s.tokenRefreshed
    /\ inflight' = s.inflight
    /\ sockets' = s.sockets
    /\ refreshFailed' = s.refreshFailed
    /\ lateIssue' = s.lateIssue
    /\ prevRooms' = s.prevRooms

\* io(url, opts): a new socket; it starts connecting when autoConnect is set
NoTenant == "<none>"
NewSocket(tok, tenant, auto) ==
    [state |-> IF auto THEN "connecting" ELSE "idle", tok |-> tok,
     tenant |-> tenant, auto |-> auto, joined |-> {}, buf |-> {}, lst |-> {}]

\* a socket that is connecting or connected; the other sockets SocketService
\* no longer refers to can never act again and are dropped from the record
IsLive(k) == k.state \in {"connecting", "connected"}
Live(ss) == SelectSeq(ss, IsLive)

\* AuthService.logout
logout(s) ==
    [s EXCEPT !.accessToken = NoToken, !.refreshTokenStored = FALSE,
              !.userStored = FALSE, !.currentUser = FALSE,
              !.isAuthenticated = FALSE]

\* AuthService.refreshToken().subscribe(...) by one of SocketService's or
\* AuthService's own callers: without a stored refresh token the error
\* callback runs at once, otherwise the POST is in flight
refreshToken(s, origin) ==
    IF ~s.refreshTokenStored
    THEN LET s1 == [s EXCEPT !.refreshFailed = TRUE] IN
         IF origin = "auto" THEN s1 ELSE logout(s1)
    ELSE [s EXCEPT !.inflight[origin] = @ + 1,
                   !.lateIssue = @ \/ s.refreshFailed]

\* SocketService.disconnect
disconnect(s) ==
    LET n == Len(s.sockets) IN
    IF n = 0 THEN s
    ELSE [s EXCEPT !.sockets[n].state =
                       IF @ \in {"connecting", "connected"} THEN "closed" ELSE @,
                   !.sockets[n].joined = {}]

\* _initializeSocket connecting under a default tenant when none resolves
initializeSocket_defaultTenant(s) ==
    IF s.accessToken # NoToken /\ IsTokenExpired(s.accessToken)
    THEN refreshToken(s, "init")
    ELSE [s EXCEPT !.sockets =
            Append(Live(@), NewSocket(s.accessToken.id,
                                      IF Tenant.ok THEN Tenant.val ELSE "default",
                                      TRUE))]

\* SocketService._initializeSocket
initializeSocket(s) ==
    IF s.accessToken # NoToken /\ IsTokenExpired(s.accessToken)
    THEN refreshToken(s, "init")
    ELSE IF ~Tenant.ok
         THEN [s EXCEPT !.sockets = Append(Live(@), NewSocket(0, NoTenant, FALSE))]
         ELSE [s EXCEPT !.sockets =
                 Append(Live(@), NewSocket(s.accessToken.id, Tenant.val, TRUE))]

\* SocketService.reconnect; prevRooms keeps the rooms of the connection that
\* is given up
reconnect(s) ==
    LET n == Len(s.sockets)
        s1 == IF n > 0 /\ s.sockets[n].state = "connected"
              THEN [s EXCEPT !.prevRooms = s.sockets[n].joined] ELSE s
    IN initializeSocket(disconnect(s1))

\* the tokenRefreshed$ subscription of SocketService's constructor
onTokenRefreshed(s) ==
    LET n == Len(s.sockets) IN
    IF s.tokenRefreshed /\ n > 0 /\ s.sockets[n].state # "connected"
    THEN reconnect(s) ELSE s

\* AuthService._setSession
setSession(s, t) ==
    LET s1 == [s EXCEPT !.accessToken = t, !.refreshTokenStored = TRUE,
                        !.userStored = TRUE, !.currentUser = TRUE,
                        !.isAuthenticated = TRUE, !.tokenRefreshed = TRUE]
    IN IF constructed THEN onTokenRefreshed(s1) ELSE s1

InFlightTotal(s, rq) ==
    s.inflight["init"] + s.inflight["handler"] + s.inflight["auto"]
    + Cardinality({r \in Reqs : rq[r].st = "refreshing"})

\* the part of the state space that is explored
Bounded(s, rq) ==
    /\ Len(s.sockets) <= MaxSockets
    /\ InFlightTotal(s, rq) <= MaxInFlight

\* the tokens the backend may issue next
Issued == {[id |-> nextTok, kind |-> k] : k \in {"valid", "expired"}}

(***************************************************************************)
(* AuthService                                                             *)
(***************************************************************************)
\* AuthService.login, the success branch
Login ==
    /\ nextTok <= MaxTok
    /\ \E t \in Issued :
         LET s == setSession([Cur EXCEPT !.refreshFailed = FALSE,
                                         !.lateIssue = FALSE], t) IN
         /\ Bounded(s, req)
         /\ Commit(s)
    /\ nextTok' = nextTok + 1
    /\ UNCHANGED <<icVars, constructed, connectedOnce, urlVars, storeVars,
                   extVars>>

\* AuthService.logout called by a view
Logout ==
    /\ Commit(logout(Cur))
    /\ UNCHANGED <<nextTok, icVars, constructed, connectedOnce, urlVars,
                   storeVars, extVars>>

\* AuthService.isLoggedIn: payload.exp > now, false when there is no token
\* or decoding throws (a token of kind expired is taken at or past its exp)
isLoggedIn(t) ==
    IF t = NoToken THEN FALSE
    ELSE IF t.kind = "malformed" THEN FALSE
    ELSE t.kind \in {"valid", "expiring"}

\* AuthService.autoRefreshToken: nothing without a token; the catch around
\* the decoding only logs; exp - now < 300 asks for a refresh
autoRefreshToken(s) ==
    IF s.accessToken = NoToken THEN s
    ELSE IF s.accessToken.kind = "malformed" THEN s
    ELSE IF s.accessToken.kind \in {"expiring", "expired"}
         THEN refreshToken(s, "auto")
         ELSE s

\* a call of autoRefreshToken that asks for a refresh
AutoRefreshToken ==
    /\ autoRefreshToken(Cur) # Cur
    /\ LET s == autoRefreshToken(Cur) IN
         /\ Bounded(s, req)
         /\ Commit(s)
    /\ UNCHANGED <<nextTok, icVars, constructed, connectedOnce, urlVars,
                   storeVars, extVars>>

\* the clock advances past one of the two expiry thresholds of the stored token
TimePasses ==
    /\ accessToken.kind \in {"valid", "expiring"}
    /\ accessToken' = [accessToken EXCEPT
                         !.kind = IF @ = "valid" THEN "expiring" ELSE "expired"]
    /\ UNCHANGED <<refreshTokenStored, userStored, isAuthenticated,
                   currentUser, tokenRefreshed, inflight, refreshFailed,
                   lateIssue, nextTok, icVars, sockVars, urlVars, storeVars,
                   extVars>>

\* the subscriber's next callback of a refresh started outside the interceptor
afterRefresh(s, o) ==
    CASE o = "init" -> initializeSocket(s)
      [] o = "handler" -> reconnect(s)
      [] o = "auto" -> s

\* POST /api/auth/refresh answers: tap(_setSession), then the subscriber
RefreshSucceeds(o) ==
    /\ inflight[o] > 0
    /\ nextTok <= MaxTok
    /\ \E t \in Issued :
         LET s0 == [Cur EXCEPT !.inflight[o] = @ - 1]
             s == afterRefresh(setSession(s0, t), o)
         IN /\ Bounded(s, req)
            /\ Commit(s)
    /\ nextTok' = nextTok + 1
    /\ UNCHANGED <<icVars, constructed, connectedOnce, urlVars, storeVars,
                   extVars>>

\* POST /api/auth/refresh fails: catchError(logout), then the subscriber's
\* error callback (logout again in SocketService, none in autoRefreshToken)
RefreshFails(o) ==
    /\ inflight[o] > 0
    /\ LET s0 == [Cur EXCEPT !.inflight[o] = @ - 1, !.refreshFailed = TRUE]
           s1 == logout(s0)
       IN Commit(IF o = "auto" THEN s1 ELSE logout(s1))
    /\ UNCHANGED <<nextTok, icVars, constructed, connectedOnce, urlVars,
                   storeVars, extVars>>

(***************************************************************************)
(* AuthInterceptor.  A request is idle, sent (first attempt), refreshing   *)
(* (it started the interceptor's refresh), waiting (on                     *)
(* _refreshTokenSubject), resent, done or failed.  tok is the token of the *)
(* Authorization header of the request on the wire (0: none), role tells   *)
(* which branch of _handle401Error the request took, and covered that the  *)
(* request was on the wire, not yet answered, when another request's 401   *)
(* started a refresh.                                                      *)
(***************************************************************************)
IdleReq == [st |-> "idle", tok |-> 0, role |-> "none", covered |-> FALSE]

\* the requests awaiting their first answer when r starts a refresh
cover(rq, r) ==
    [x \in Reqs |-> IF x # r /\ rq[x].st = "sent"
                    THEN [rq[x] EXCEPT !.covered = TRUE] ELSE rq[x]]

\* AuthInterceptor._addTokenToRequest followed by next.handle
addTokenToRequest(s, q) == [q EXCEPT !.tok = s.accessToken.id]

\* AuthInterceptor.intercept up to next.handle(authReq)
Intercept(r) ==
    /\ req[r].st = "idle"
    /\ icVersion = 1 => constructed   \* the first version injects SocketService
    /\ req' = [req EXCEPT ![r] = [addTokenToRequest(Cur, @) EXCEPT !.st = "sent"]]
    /\ UNCHANGED <<sessionVars, nextTok, icVersion, isRefreshing,
                   refreshTokenSubject, sockVars, urlVars, storeVars, extVars>>

\* the backend answers a request without an error
Respond(r) ==
    /\ req[r].st \in {"sent", "resent"}
    /\ req' = [req EXCEPT ![r].st = "done", ![r].tok = 0]
    /\ UNCHANGED <<sessionVars, nextTok, icVersion, isRefreshing,
                   refreshTokenSubject, sockVars, urlVars, storeVars, extVars>>

\* the else branch of _handle401Error: filter(token !== null), take(1),
\* switchMap(next.handle(addToken(req))) on a BehaviorSubject, which replays
\* its current value to a new subscriber
handle401Error_wait(q, s) ==
    IF refreshTokenSubject # 0
    THEN [addTokenToRequest(s, q) EXCEPT !.st = "resent", !.role = "waiter"]
    ELSE [q EXCEPT !.st = "waiting", !.role = "waiter"]

\* the test of _handle401Error: this request starts the refresh
startsRefresh == ~isRefreshing

\* intercept for /api/health, /api/auth/login, /api/auth/refresh or a
\* request with Skip-Auth: next.handle(req) as it is, no catchError
InterceptSkip(r) ==
    /\ req[r].st = "idle"
    /\ req' = [req EXCEPT ![r].st = "sent", ![r].role = "skip"]
    /\ UNCHANGED <<sessionVars, nextTok, icVersion, isRefreshing,
                   refreshTokenSubject, sockVars, urlVars, storeVars, extVars>>

\* a request that skipped the interceptor gets a 401: the error goes to the
\* caller
Respond401Skip(r) ==
    /\ req[r].st = "sent"
    /\ req[r].role = "skip"
    /\ req' = [req EXCEPT ![r].st = "failed"]
    /\ UNCHANGED <<sessionVars, nextTok, icVersion, isRefreshing,
                   refreshTokenSubject, sockVars, urlVars, storeVars, extVars>>

\* the caller unsubscribes from a request that has not completed: the call
\* on the wire (the refresh call for the request that started one) is
\* aborted and none of the request's callbacks runs any more
Cancel(r) ==
    /\ req[r].st \in {"sent", "refreshing", "waiting", "resent"}
    /\ req' = [req EXCEPT ![r].st = "cancelled", ![r].tok = 0]
    /\ UNCHANGED <<sessionVars, nextTok, icVersion, isRefreshing,
                   refreshTokenSubject, sockVars, urlVars, storeVars, extVars>>

\* the first attempt gets a 401: catchError -> _handle401Error
Respond401(r) ==
    /\ req[r].st = "sent"
    /\ req[r].role # "skip"
    /\ IF startsRefresh
       THEN IF ~refreshTokenStored
            THEN \* refreshToken() throws at once; catchError: logout
                 /\ isRefreshing' = FALSE
                 /\ refreshTokenSubject' = 0
                 /\ req' = [req EXCEPT ![r].st = "failed", ![r].tok = 0,
                                       ![r].role = "first"]
                 /\ Commit(logout([Cur EXCEPT !.refreshFailed = TRUE]))
            ELSE /\ isRefreshing' = TRUE
                 /\ refreshTokenSubject' = 0
                 /\ req' = [cover(req, r) EXCEPT ![r].st = "refreshing",
                                                 ![r].tok = 0, ![r].role = "first"]
                 /\ Bounded(Cur, req')
                 /\ Commit([Cur EXCEPT !.lateIssue = @ \/ refreshFailed])
       ELSE /\ req' = [req EXCEPT ![r] = handle401Error_wait([@ EXCEPT !.tok = 0], Cur)]
            /\ Commit(Cur)
            /\ UNCHANGED <<isRefreshing, refreshTokenSubject>>
    /\ UNCHANGED <<nextTok, icVersion, constructed, connectedOnce, urlVars,
                   storeVars, extVars>>

\* _refreshTokenSubject.next(token): every waiting request is re-sent, its
\* headers rebuilt by _addTokenToRequest
releaseWaiters(rq, s, tokId) ==
    [r \in Reqs |->
        IF rq[r].st = "waiting"
        THEN [addTokenToRequest(s, rq[r]) EXCEPT !.st = "resent"]
        ELSE rq[r]]

\* the interceptor's refresh answers: tap(_setSession), then the switchMap of
\* _handle401Error (the first version of the file also reconnects the socket)
RefreshSucceedsIc(r) ==
    /\ req[r].st = "refreshing"
    /\ nextTok <= MaxTok
    /\ \E t \in Issued :
         LET s1 == setSession(Cur, t)
             rq1 == releaseWaiters(req, s1, t.id)
             s2 == IF icVersion = 1 THEN reconnect(s1) ELSE s1
             rq2 == [rq1 EXCEPT ![r] = [addTokenToRequest(s2, @) EXCEPT
                                           !.st = "resent"]]
         IN /\ Bounded(s2, rq2)
            /\ Commit(s2)
            /\ req' = rq2
            /\ refreshTokenSubject' = t.id
    /\ isRefreshing' = FALSE
    /\ nextTok' = nextTok + 1
    /\ UNCHANGED <<icVersion, constructed, connectedOnce, urlVars, storeVars,
                   extVars>>

\* the interceptor's refresh fails: catchError(logout) of refreshToken, then
\* the catchError of _handle401Error
RefreshFailsIc(r) ==
    /\ req[r].st = "refreshing"
    /\ isRefreshing' = FALSE
    /\ req' = [req EXCEPT ![r].st = "failed", ![r].tok = 0]
    /\ Commit(logout(logout([Cur EXCEPT !.refreshFailed = TRUE])))
    /\ UNCHANGED <<nextTok, refreshTokenSubject, icVersion, constructed,
                   connectedOnce, urlVars, storeVars, extVars>>

\* the re-sent request's 401 handled like the first attempt's
ResentFails_again(r) ==
    /\ req[r].st = "resent"
    /\ req' = [req EXCEPT ![r].st = "refreshing", ![r].tok = 0]
    /\ isRefreshing' = TRUE
    /\ Commit(Cur)
    /\ UNCHANGED <<nextTok, refreshTokenSubject, icVersion, constructed,
                   connectedOnce, urlVars, storeVars, extVars>>

\* the re-sent request fails (any status): for the request that started the
\* refresh the error reaches the catchError of _handle401Error, for a waiting
\* request it goes to the caller
ResentFails(r) ==
    /\ req[r].st = "resent"
    /\ req' = [req EXCEPT ![r].st = "failed", ![r].tok = 0]
    /\ IF req[r].role = "first"
       THEN /\ isRefreshing' = FALSE
            /\ Commit(logout(Cur))
       ELSE /\ Commit(Cur)
            /\ UNCHANGED isRefreshing
    /\ UNCHANGED <<nextTok, refreshTokenSubject, icVersion, constructed,
                   connectedOnce, urlVars, storeVars, extVars>>

(***************************************************************************)
(* SocketService                                                           *)
(***************************************************************************)
\* SocketService's constructor: _initializeSocket, then the subscription to
\* tokenRefreshed$, a BehaviorSubject that replays its value
Construct ==
    /\ ~constructed
    /\ constructed' = TRUE
    /\ LET s == onTokenRefreshed(initializeSocket(Cur)) IN
         /\ Bounded(s, req)
         /\ Commit(s)
    /\ UNCHANGED <<nextTok, icVars, connectedOnce, urlVars, storeVars, extVars>>

\* SocketService.disconnect called by a view (CustomerComponent.ngOnDestroy)
Disconnect ==
    /\ constructed
    /\ Len(sockets) > 0 /\ IsLive(sockets[Len(sockets)])
    /\ Commit([disconnect(Cur) EXCEPT !.prevRooms = {}])
    /\ UNCHANGED <<nextTok, icVars, constructed, connectedOnce, urlVars,
                   storeVars, extVars>>

\* the transport reports 'connect': buffered emits are flushed
Connect(i) ==
    /\ sockets[i].state = "connecting"
    /\ sockets' = [sockets EXCEPT ![i].state = "connected",
                                  ![i].joined = sockets[i].buf,
                                  ![i].buf = {}]
    /\ connectedOnce' = TRUE
    /\ UNCHANGED <<sessionVars, nextTok, icVars, constructed, prevRooms,
                   urlVars, storeVars, extVars>>

\* the connection is lost; the manager (reconnection: true) tries again with
\* the auth payload fixed when the socket was made, and the server forgets the
\* rooms
TransportLoss(i) ==
    /\ sockets[i].state = "connected"
    /\ sockets' = [sockets EXCEPT ![i].state = "connecting", ![i].joined = {}]
    /\ prevRooms' = IF i = Len(sockets) THEN sockets[i].joined ELSE prevRooms
    /\ UNCHANGED <<sessionVars, nextTok, icVars, constructed, connectedOnce,
                   urlVars, storeVars, extVars>>

\* reconnectionAttempts are used up: 'connect_error' without an auth message
ReconnectFailed(i) ==
    /\ sockets[i].state = "connecting"
    /\ Commit([Cur EXCEPT !.sockets[i].state = "closed"])
    /\ UNCHANGED <<nextTok, icVars, constructed, connectedOnce, urlVars,
                   storeVars, extVars>>

\* the handlers of 'connect_error' (Invalid or expired token), 'error'
\* (Authentication required) and 'auth_error' (TOKEN_*) all do this
refreshAfterAuthError(s) == refreshToken(s, "handler")

\* 'connect_error' with 'Invalid or expired token': the server refused the
\* handshake, the socket stays disconnected
ConnectErrorAuth(i) ==
    /\ sockets[i].state = "connecting"
    /\ LET s == refreshAfterAuthError([Cur EXCEPT !.sockets[i].state = "closed"]) IN
         /\ Bounded(s, req)
         /\ Commit(s)
    /\ UNCHANGED <<nextTok, icVars, constructed, connectedOnce, urlVars,
                   storeVars, extVars>>

\* 'error' with a string that includes 'Authentication required'
ErrorEventAuth(i) ==
    /\ sockets[i].state = "connected"
    /\ LET s == refreshAfterAuthError(Cur) IN
         /\ Bounded(s, req)
         /\ Commit(s)
    /\ UNCHANGED <<nextTok, icVars, constructed, connectedOnce, urlVars,
                   storeVars, extVars>>

\* 'auth_error': a TOKEN_INVALID / TOKEN_EXPIRED / TOKEN_MALFORMED code asks
\* for a refresh, any other code logs out
AuthErrorEvent(i, tokenCode) ==
    /\ sockets[i].state = "connected"
    /\ LET s == IF tokenCode THEN refreshAfterAuthError(Cur) ELSE logout(Cur) IN
         /\ Bounded(s, req)
         /\ Commit(s)
    /\ UNCHANGED <<nextTok, icVars, constructed, connectedOnce, urlVars,
                   storeVars, extVars>>

(***************************************************************************)
(* Rooms.  socket.emit on a connected socket reaches the server at once;   *)
(* on any other socket the packet waits in the send buffer for 'connect'.  *)
(***************************************************************************)
\* the tail of joinTable / joinWaiterRoom / joinAdminRoom: the tenant was
\* given or resolved (else the method has returned), then
\* this._socket.emit('join', room); without a socket the emit throws
emitJoin(s, room, tenantOk) ==
    LET n == Len(s.sockets) IN
    IF ~tenantOk \/ n = 0 THEN s
    ELSE IF s.sockets[n].state = "connected"
         THEN [s EXCEPT !.sockets[n].joined = @ \cup {room}]
         ELSE [s EXCEPT !.sockets[n].buf = @ \cup {room}]

\* SocketService.joinTable(tableId, tenantId?)
joinTable(s, tenantGiven) == emitJoin(s, "table", tenantGiven \/ Tenant.ok)

\* SocketService.joinWaiterRoom
joinWaiterRoom(s) ==
    IF ~s.isAuthenticated THEN s ELSE emitJoin(s, "waiter", Tenant.ok)

\* SocketService.joinAdminRoom
joinAdminRoom(s) ==
    IF ~s.isAuthenticated THEN s ELSE emitJoin(s, "admin", Tenant.ok)

\* CustomerComponent.ngOnInit passes the tenant it resolved itself and does
\* not call joinTable when that fails; other callers may omit the tenant
JoinTable(tenantGiven) ==
    /\ constructed
    /\ tenantGiven => Tenant.ok
    /\ Commit(joinTable(Cur, tenantGiven))
    /\ UNCHANGED <<nextTok, icVars, constructed, connectedOnce, urlVars,
                   storeVars, extVars>>

JoinAdminRoom ==
    /\ constructed
    /\ Commit(joinAdminRoom(Cur))
    /\ UNCHANGED <<nextTok, icVars, constructed, connectedOnce, urlVars,
                   storeVars, extVars>>

(***************************************************************************)
(* RequestStateService and WaiterDashboardComponent                        *)
(***************************************************************************)
ReqIds == {1, 2}
Statuses == {"pending", "acknowledged", "completed", "cancelled"}
Entities == [id : ReqIds, status : Statuses]
\* what GET /api/requests/active-db may answer: active requests, one per id
Snapshots ==
    {<<>>} \cup {<<e>> : e \in [id : ReqIds, status : {"pending", "acknowledged"}]}
    \cup {<<e, f>> : e \in [id : {1}, status : {"pending", "acknowledged"}],
                     f \in [id : {2}, status : {"pending", "acknowledged"}]}

\* RequestStateService.addRequest
addRequest(rs, e) == Append(rs, e)

\* RequestStateService.updateRequest
updateRequest(rs, e) == [i \in 1..Len(rs) |-> IF rs[i].id = e.id THEN e ELSE rs[i]]

\* removeRequest taking out the first entry with the id only
RECURSIVE removeRequest_firstOnly(_, _)
removeRequest_firstOnly(rs, id) ==
    IF rs = <<>> THEN <<>>
    ELSE IF Head(rs).id = id THEN Tail(rs)
    ELSE <<Head(rs)>> \o removeRequest_firstOnly(Tail(rs), id)

\* RequestStateService.removeRequest
removeRequest(rs, id) == SelectSeq(rs, LAMBDA x : x.id # id)

\* RequestStateService.clearRequests
clearRequests == <<>>

\* the computed views of RequestStateService
pendingRequests == SelectSeq(requests, LAMBDA x : x.status = "pending")
acknowledgedRequests == SelectSeq(requests, LAMBDA x : x.status = "acknowledged")

CountId(rs, id) == Cardinality({i \in 1..Len(rs) : rs[i].id = id})

\* the lifecycle order of ServiceRequest.status: pending, acknowledged, then
\* the terminal completed / cancelled
Rank(st) ==
    CASE st = "pending" -> 1
      [] st = "acknowledged" -> 2
      [] OTHER -> 3

\* the furthest status the collection rs shows for each id it holds, joined
\* with what was shown before
advance(f, rs) ==
    [id \in ReqIds |->
        LET shown == {Rank(rs[i].status) : i \in {j \in 1..Len(rs) : rs[j].id = id}}
        IN IF \E k \in shown : k > f[id]
           THEN CHOOSE k \in shown : \A m \in shown : m <= k
           ELSE f[id]]

\* _socketService.on(E).subscribe: socket.on(E, ...) on the current _socket
\* a listener is the subscriber and the event name it listens to
subscribeOn(s, who, evs) ==
    LET n == Len(s.sockets) IN
    IF n = 0 THEN s
    ELSE [s EXCEPT !.sockets[n].lst = @ \cup {<<who, e>> : e \in evs}]

\* the teardown of on(E): this._socket.off(E) on the current _socket
\* off(E) without a listener argument removes every listener of E
unsubscribeOn(s, evs) ==
    LET n == Len(s.sockets) IN
    IF n = 0 THEN s
    ELSE [s EXCEPT !.sockets[n].lst = {p \in @ : p[2] \notin evs}]

DashEvents == {"new_request", "request_updated"}

\* another consumer of SocketService.on
Consumers == {"other"}

\* on(E).subscribe(...) by a consumer
Subscribe(c, E) ==
    /\ constructed
    /\ Len(sockets) > 0
    /\ <<c, E>> \notin sockets[Len(sockets)].lst
    /\ Commit(subscribeOn(Cur, c, {E}))
    /\ UNCHANGED <<nextTok, icVars, constructed, connectedOnce, urlVars,
                   storeVars, extVars>>

\* the consumer unsubscribes while its listener is registered: the teardown
\* of on(E) runs (once its listener is gone the teardown changes nothing)
Unsubscribe(c, E) ==
    /\ constructed
    /\ Len(sockets) > 0
    /\ <<c, E>> \in sockets[Len(sockets)].lst
    /\ Commit(unsubscribeOn(Cur, {E}))
    /\ UNCHANGED <<nextTok, icVars, constructed, connectedOnce, urlVars,
                   storeVars, extVars>>

\* WaiterDashboardComponent.ngOnInit: joinWaiterRoom, _loadExistingRequests
\* (getActiveRequestsFromDb errors at once without a tenant), and the two
\* subscriptions.  Without a socket the emit of joinWaiterRoom throws and
\* ends ngOnInit
DashboardInit ==
    /\ constructed
    /\ ~dashMounted
    /\ dashMounted' = TRUE
    /\ LET throws == Len(sockets) = 0 /\ isAuthenticated /\ Tenant.ok IN
       /\ snapshots' = IF ~throws /\ Tenant.ok THEN snapshots + 1 ELSE snapshots
       /\ snapshots' <= MaxSnap
       /\ Commit(IF throws THEN Cur
                 ELSE subscribeOn(joinWaiterRoom(Cur), "dash", DashEvents))
    /\ UNCHANGED <<nextTok, icVars, constructed, connectedOnce, urlVars,
                   requests, lastEvent, furthest, extVars>>

\* WaiterDashboardComponent.ngOnDestroy
DashboardDestroy ==
    /\ dashMounted
    /\ dashMounted' = FALSE
    /\ requests' = clearRequests
    /\ lastEvent' = [NoEvent EXCEPT !.name = "destroy"]
    /\ Commit(unsubscribeOn(Cur, DashEvents))
    /\ UNCHANGED <<nextTok, icVars, constructed, connectedOnce, urlVars,
                   snapshots, furthest, extVars>>

\* _loadExistingRequests appending the loaded requests without clearing
RECURSIVE applySnapshot_append(_, _)
applySnapshot_append(rs, S) ==
    IF S = <<>> THEN rs
    ELSE applySnapshot_append(addRequest(rs, Head(S)), Tail(S))

\* the next callback of _loadExistingRequests: clearRequests, then addRequest
\* for each loaded request in order
applySnapshot(rs, S) == applySnapshot_append(clearRequests, S)

\* the success callback of _loadExistingRequests (the subscription is not
\* kept in _sub, so it also runs after ngOnDestroy)
SnapshotSucceeds(S) ==
    /\ snapshots > 0
    /\ snapshots' = snapshots - 1
    /\ requests' = applySnapshot(requests, S)
    /\ lastEvent' = [NoEvent EXCEPT !.name = "snapshot", !.had = Len(requests)]
    /\ furthest' = advance(furthest, requests')
    /\ UNCHANGED <<sessionVars, nextTok, icVars, sockVars, urlVars,
                   dashMounted, extVars>>

\* the error callback of _loadExistingRequests
SnapshotFails ==
    /\ snapshots > 0
    /\ snapshots' = snapshots - 1
    /\ UNCHANGED <<sessionVars, nextTok, icVars, sockVars, urlVars,
                   dashMounted, requests, lastEvent, furthest, extVars>>

\* the 'new_request' subscription of the dashboard (the table label it also
\* looks up is display data outside this state)
onNewRequest(rs, e) == addRequest(rs, e)

\* the 'request_updated' subscription of the dashboard
onRequestUpdated(rs, e) ==
    IF e.status = "cancelled" \/ e.status = "completed"
    THEN removeRequest(rs, e.id)
    ELSE updateRequest(rs, e)

\* the server delivers 'new_request' on a connected socket that has the listener
NewRequest(i, e) ==
    /\ sockets[i].state = "connected"
    /\ <<"dash", "new_request">> \in sockets[i].lst
    /\ Len(requests) < MaxLen
    /\ requests' = onNewRequest(requests, e)
    /\ lastEvent' = [name |-> "new_request", id |-> e.id, status |-> e.status,
                     had |-> CountId(requests, e.id)]
    /\ furthest' = advance(furthest, requests')
    /\ UNCHANGED <<sessionVars, nextTok, icVars, sockVars, urlVars,
                   dashMounted, snapshots, extVars>>

\* the server delivers 'request_updated'
RequestUpdated(i, e) ==
    /\ sockets[i].state = "connected"
    /\ <<"dash", "request_updated">> \in sockets[i].lst
    /\ requests' = onRequestUpdated(requests, e)
    /\ lastEvent' = [name |-> "request_updated", id |-> e.id, status |-> e.status,
                     had |-> CountId(requests, e.id)]
    /\ furthest' = IF e.status \in {"completed", "cancelled"}
                   THEN IF CountId(requests, e.id) > 0
                        THEN [furthest EXCEPT ![e.id] = Rank("completed")]
                        ELSE furthest
                   ELSE advance(furthest, requests')
    /\ UNCHANGED <<sessionVars, nextTok, icVars, sockVars, urlVars,
                   dashMounted, snapshots, extVars>>

(***************************************************************************)
(* CustomerStateService.  A field that is null in the code is 0 (ids,      *)
(* timestamp) or "null" (requestType, customNote) here; all of them, like  *)
(* the empty requestStatus, are falsy.  Times are minutes.                 *)
(***************************************************************************)
STATE_EXPIRY_MIN == 30

CustDefaults ==
    [tableId |-> 0, currentRequestId |-> 0, requestStatus |-> "",
     requestType |-> "null", customNote |-> "null", timestamp |-> 0]

\* sessionStorage.getItem returning null, and an item JSON.parse rejects
NoRecord == [kind |-> "none", rec |-> CustDefaults]
Corrupt == [kind |-> "corrupt", rec |-> CustDefaults]
\* JSON.stringify(state) stored, as JSON.parse gives it back
Record(mem) == [kind |-> "record", rec |-> mem]

NoCustOp == [op |-> "none", active |-> FALSE]

\* the service's state as one record: signals, storage, scheduled effect
CurCust == [mem |-> custMem, stored |-> custStored, pending |-> effectPending]

CommitCust(c) ==
    /\ custMem' = c.mem
    /\ custStored' = c.stored
    /\ effectPending' = c.pending

\* a signal write schedules the effect when it changes a value
write(c, mem) == [c EXCEPT !.mem = mem, !.pending = @ \/ mem # c.mem]

\* CustomerStateService.clearRequestState
clearRequestState(c) ==
    [write(c, [CustDefaults EXCEPT !.tableId = c.mem.tableId])
        EXCEPT !.stored = NoRecord]

\* CustomerStateService.clearState
clearState(c) == [write(c, CustDefaults) EXCEPT !.stored = NoRecord]

\* CustomerStateService.setRequest
setRequest(c, id, type, note) ==
    write(c, [c.mem EXCEPT !.currentRequestId = id, !.requestType = type,
                           !.customNote = note, !.timestamp = now])

\* CustomerStateService.updateStatus
updateStatus(c, st) == write(c, [c.mem EXCEPT !.requestStatus = st])

\* CustomerStateService.completeRequest
completeRequestState(c) == clearRequestState(c)

\* the expiry test with >= in place of >
isExpired_atWindow(rec) ==
    rec.timestamp # 0 /\ now - rec.timestamp >= STATE_EXPIRY_MIN

\* the expiry test of _loadState
isExpired(rec) == rec.timestamp # 0 /\ now - rec.timestamp > STATE_EXPIRY_MIN

\* 'if (state.f) this.f.set(state.f)' for the six fields
restoreFields(mem, rec) ==
    [tableId |-> IF rec.tableId # 0 THEN rec.tableId ELSE mem.tableId,
     currentRequestId |-> IF rec.currentRequestId # 0
                          THEN rec.currentRequestId ELSE mem.currentRequestId,
     requestStatus |-> IF rec.requestStatus # ""
                       THEN rec.requestStatus ELSE mem.requestStatus,
     requestType |-> IF rec.requestType # "null"
                     THEN rec.requestType ELSE mem.requestType,
     customNote |-> IF rec.customNote # "null"
                    THEN rec.customNote ELSE mem.customNote,
     timestamp |-> IF rec.timestamp # 0 THEN rec.timestamp ELSE mem.timestamp]

\* CustomerStateService._loadState
loadState(c) ==
    IF c.stored.kind = "none" THEN c
    ELSE IF c.stored.kind = "corrupt" THEN clearRequestState(c)
    ELSE IF isExpired(c.stored.rec) THEN clearRequestState(c)
    ELSE write(c, restoreFields(c.mem, c.stored.rec))

\* the effect saving whatever the signals hold
autoSave_always(c) == [c EXCEPT !.stored = Record(c.mem), !.pending = FALSE]

\* the effect of the constructor; it first runs after the constructor has
\* set _initialized
autoSave(c) ==
    IF c.mem.currentRequestId # 0
    THEN [c EXCEPT !.stored = Record(c.mem), !.pending = FALSE]
    ELSE [c EXCEPT !.stored = NoRecord, !.pending = FALSE]

\* the constructor: _loadState, then the effect is created and scheduled
CustConstruct ==
    /\ ~custConstructed
    /\ custConstructed' = TRUE
    /\ CommitCust([loadState(CurCust) EXCEPT !.pending = TRUE])
    /\ lastCust' = [op |-> "restore", active |-> FALSE]
    /\ UNCHANGED <<custMounted, timerOn, now, rateVars, urlVars, authVars, icVars,
                   sockVars, storeVars>>

\* the scheduled effect runs
RunEffect ==
    /\ custConstructed
    /\ effectPending
    /\ CommitCust(autoSave(CurCust))
    /\ UNCHANGED <<custConstructed, custMounted, timerOn, lastCust, now, rateVars,
                   urlVars, authVars, icVars, sockVars, storeVars>>

\* a caller of the service's methods
CustCall(c, op) ==
    /\ custConstructed
    /\ CommitCust(c)
    /\ lastCust' = [op |-> op, active |-> custMem.currentRequestId # 0]
    /\ UNCHANGED <<custConstructed, custMounted, timerOn, now, rateVars, urlVars,
                   authVars, icVars, sockVars, storeVars>>

SetTable(tb) == CustCall(write(CurCust, [custMem EXCEPT !.tableId = tb]), "table")
SetRequest(id, type, note) ==
    CustCall(setRequest(CurCust, id, type, note), "setRequest")
UpdateStatus(st) == CustCall(updateStatus(CurCust, st), "updateStatus")
CompleteRequestState == CustCall(completeRequestState(CurCust), "completeRequest")
ClearRequestState == CustCall(clearRequestState(CurCust), "clearRequestState")
ClearState == CustCall(clearState(CurCust), "clearState")

\* the clock
Tick(d) ==
    /\ now + d <= MaxNow
    /\ now' = now + d
    /\ UNCHANGED <<custVars, rateVars, urlVars, authVars, icVars, sockVars,
                   storeVars>>

\* the page is loaded again: sessionStorage stays, the services start over
ReloadCustomer ==
    /\ custConstructed
    /\ custConstructed' = FALSE
    /\ custMem' = CustDefaults
    /\ effectPending' = FALSE
    /\ custMounted' = FALSE
    /\ timerOn' = FALSE
    /\ lastCust' = NoCustOp
    /\ UNCHANGED <<custStored, now, rateVars, urlVars, authVars, icVars, sockVars,
                   storeVars>>

(***************************************************************************)
(* CustomerComponent                                                       *)
(***************************************************************************)
CustEvents == {"request_sent", "request_status"}
EventStatuses == {"acknowledged", "completed", "cancelled"}

\* CustomerComponent._stopTimer
stopTimer(on) == FALSE

\* the 'request_sent' subscription: setRequest, updateStatus with the
\* translated text
onRequestSent(c, id, type, note) ==
    updateStatus(setRequest(c, id, type, note), "sent")

\* the 'request_status' subscription: 'acknowledged' and 'completed' are
\* handled, every other status is ignored
onRequestStatus(c, status) ==
    IF status = "acknowledged" THEN updateStatus(c, "coming")
    ELSE IF status = "completed" THEN completeRequestState(c)
    ELSE c

\* the test of ngOnInit on getState() that shows 'previousRequestActive'
previousRequestActive(savedState, tableId) ==
    savedState.currentRequestId # 0 /\ savedState.tableId = tableId

\* CustomerComponent.ngOnInit with a table id in the route: the table id is
\* set, joinTable is called with the tenant of the URL unless resolving it
\* throws, the saved state is read and tested (lastCust.active tells
\* whether the previous request was reported active), and the two
\* subscriptions are made
CustomerInit(tb) ==
    /\ constructed /\ custConstructed
    /\ Len(sockets) > 0
    /\ ~custMounted
    /\ custMounted' = TRUE
    /\ LET c == write(CurCust, [custMem EXCEPT !.tableId = tb]) IN
         /\ CommitCust(c)
         /\ lastCust' = [op |-> "init", active |-> previousRequestActive(c.mem, tb)]
    /\ Commit(subscribeOn(IF Tenant.ok THEN joinTable(Cur, TRUE) ELSE Cur,
                          "cust", CustEvents))
    /\ UNCHANGED <<custConstructed, timerOn, now, rateVars, nextTok, icVars,
                   constructed, connectedOnce, urlVars, storeVars>>

\* the customer's page is loaded again in its tab: sessionStorage stays,
\* both services and the component start over
ReloadPage ==
    /\ constructed /\ custConstructed
    /\ accessToken = NoToken
    /\ custConstructed' = FALSE
    /\ custMem' = CustDefaults
    /\ effectPending' = FALSE
    /\ custMounted' = FALSE
    /\ timerOn' = FALSE
    /\ lastCust' = NoCustOp
    /\ constructed' = FALSE
    /\ sockets' = <<>>
    /\ prevRooms' = {}
    /\ connectedOnce' = FALSE
    /\ UNCHANGED <<custStored, now, rateVars, urlVars, sessionVars, nextTok,
                   icVars, storeVars>>

\* the server delivers 'request_sent' to the page's listener
RequestSent(i, id, type, note) ==
    /\ sockets[i].state = "connected"
    /\ <<"cust", "request_sent">> \in sockets[i].lst
    /\ CommitCust(onRequestSent(CurCust, id, type, note))
    /\ timerOn' = TRUE
    /\ lastCust' = [op |-> "request_sent", active |-> custMem.currentRequestId # 0]
    /\ UNCHANGED <<custConstructed, custMounted, now, rateVars, urlVars, authVars,
                   icVars, sockVars, storeVars>>

\* the server delivers 'request_status' about the page's request
RequestStatus(i, status) ==
    /\ sockets[i].state = "connected"
    /\ <<"cust", "request_status">> \in sockets[i].lst
    /\ CommitCust(onRequestStatus(CurCust, status))
    /\ timerOn' = IF status = "completed" THEN stopTimer(timerOn) ELSE timerOn
    /\ lastCust' = [op |-> status, active |-> custMem.currentRequestId # 0]
    /\ UNCHANGED <<custConstructed, custMounted, now, rateVars, urlVars, authVars,
                   icVars, sockVars, storeVars>>

\* the server delivers 'request_status' with the id of any request to the
\* page's listener; the handler reads data.status only
RequestStatusOf(i, id, status) ==
    /\ id # 0
    /\ RequestStatus(i, status)

\* CustomerComponent.cancelRequest and completeRequest: with a current
\* request, the emit, CustomerStateService.completeRequest and _stopTimer
CustomerEnds(op) ==
    /\ custMounted
    /\ Len(sockets) > 0
    /\ IF custMem.currentRequestId # 0
       THEN /\ CommitCust(completeRequestState(CurCust))
            /\ timerOn' = stopTimer(timerOn)
       ELSE UNCHANGED <<custMem, custStored, effectPending, timerOn>>
    /\ lastCust' = [op |-> op, active |-> custMem.currentRequestId # 0]
    /\ UNCHANGED <<custConstructed, custMounted, now, rateVars, urlVars, authVars,
                   icVars, sockVars, storeVars>>

CancelRequest == CustomerEnds("cancelRequest")
CompleteRequest == CustomerEnds("completeRequest")

\* CustomerComponent.ngOnDestroy: _sub.unsubscribe, _stopTimer,
\* SocketService.disconnect
CustomerDestroy ==
    /\ custMounted
    /\ custMounted' = FALSE
    /\ timerOn' = stopTimer(timerOn)
    /\ Commit([disconnect(unsubscribeOn(Cur, CustEvents)) EXCEPT !.prevRooms = {}])
    /\ lastCust' = [op |-> "destroy", active |-> custMem.currentRequestId # 0]
    /\ UNCHANGED <<custMem, custStored, effectPending, custConstructed, now,
                   rateVars, nextTok, icVars, constructed, connectedOnce, urlVars,
                   storeVars>>

(***************************************************************************)
(* RateLimitService.  Times are in units of the window tests use.          *)
(***************************************************************************)
RateKeys == {"/api/a", "/api/b"}
NoEntry == [count |-> 0, resetTime |-> 0, set |-> FALSE]

\* the limit arguments callers pass (AuthInterceptor passes one limit for
\* reads and a lower one for writes of the same endpoint) and the windowMs
\* argument, which is the same in every call
Limits == {2, 3}
Window == 2

\* checkRateLimit starting a new window at every call
checkRateLimit_extend(rl, key, limit) ==
    LET old == rl[key]
        entry == IF ~old.set \/ now > old.resetTime
                 THEN [count |-> 0, resetTime |-> now + Window, set |-> TRUE]
                 ELSE [old EXCEPT !.resetTime = now + Window]
        counted == [entry EXCEPT !.count = @ + 1]
    IN [limits |-> [rl EXCEPT ![key] = counted], ok |-> ~(counted.count > limit)]

\* checkRateLimit taking the window as over at resetTime itself
checkRateLimit_atReset(rl, key, limit) ==
    LET old == rl[key]
        entry == IF ~old.set \/ now >= old.resetTime
                 THEN [count |-> 0, resetTime |-> now + Window, set |-> TRUE]
                 ELSE old
        counted == [entry EXCEPT !.count = @ + 1]
    IN [limits |-> [rl EXCEPT ![key] = counted], ok |-> ~(counted.count > limit)]

\* RateLimitService.checkRateLimit: the map after the call and the result
checkRateLimit(rl, key, limit) ==
    LET old == rl[key]
        entry == IF ~old.set \/ now > old.resetTime
                 THEN [count |-> 0, resetTime |-> now + Window, set |-> TRUE]
                 ELSE old
        counted == [entry EXCEPT !.count = @ + 1]
    IN [limits |-> [rl EXCEPT ![key] = counted], ok |-> ~(counted.count > limit)]

\* RateLimitService.cleanupExpiredEntries
cleanupExpiredEntries(rl) ==
    [k \in RateKeys |-> IF rl[k].set /\ now > rl[k].resetTime THEN NoEntry ELSE rl[k]]

\* a caller (AuthInterceptor) asks whether a request to key may go out
CheckRateLimit(key, limit) ==
    /\ Len(rateCalls) < MaxCalls
    /\ LET r == checkRateLimit(rateLimits, key, limit) IN
         /\ rateLimits' = r.limits
         /\ rateCalls' = Append(rateCalls, [key |-> key, limit |-> limit,
                                            t |-> now, ok |-> r.ok])
    /\ UNCHANGED <<custVars, now, urlVars, authVars, icVars, sockVars, storeVars>>

\* RateLimitService.resetRateLimit: the key starts over
ResetRateLimit(key) ==
    /\ rateLimits[key].set
    /\ rateLimits' = [rateLimits EXCEPT ![key] = NoEntry]
    /\ rateCalls' = SelectSeq(rateCalls, LAMBDA c : c.key # key)
    /\ UNCHANGED <<custVars, now, urlVars, authVars, icVars, sockVars, storeVars>>

\* RateLimitService.resetAllRateLimits
ResetAllRateLimits ==
    /\ \E k \in RateKeys : rateLimits[k].set
    /\ rateLimits' = [k \in RateKeys |-> NoEntry]
    /\ rateCalls' = <<>>
    /\ UNCHANGED <<custVars, now, urlVars, authVars, icVars, sockVars, storeVars>>

\* the periodic call of cleanupExpiredEntries
CleanupExpiredEntries ==
    /\ rateLimits' = cleanupExpiredEntries(rateLimits)
    /\ rateLimits' # rateLimits
    /\ UNCHANGED <<custVars, rateCalls, now, urlVars, authVars, icVars, sockVars,
                   storeVars>>

\* the clock of the limiter
RateTick ==
    /\ now < MaxRateNow
    /\ now' = now + 1
    /\ UNCHANGED <<custVars, rateVars, urlVars, authVars, icVars, sockVars,
                   storeVars>>

(***************************************************************************)
(* UrlUtilsService as a function of the page's URL                         *)
(***************************************************************************)
ExtractTenant ==
    /\ tenantResult' = extractTenantFromUrl(search, hostname)
    /\ UNCHANGED <<sessionVars, search, hostname, nextTok, icVars, sockVars,
                   storeVars, extVars>>

\* the customer session and the limiter before anything has used them
InitExtFrom(storage) ==
    /\ custMem = CustDefaults
    /\ custStored \in storage
    /\ effectPending = FALSE
    /\ custConstructed = FALSE
    /\ custMounted = FALSE
    /\ timerOn = FALSE
    /\ lastCust = NoCustOp
    /\ now = 1
    /\ rateLimits = [k \in RateKeys |-> NoEntry]
    /\ rateCalls = <<>>

InitExt == InitExtFrom({NoRecord})

(***************************************************************************)
(* The session and connection specification.                               *)
(***************************************************************************)
vars == <<urlVars, authVars, icVars, sockVars, storeVars, extVars>>

\* localStorage at page load, as _setSession and logout leave it
StoredSessions == {NoToken} \cup {[id |-> 1, kind |-> k] : k \in Kinds}

\* a host with a tenant label and a bare host
PageHosts == {<<"a", "localhost">>, <<"localhost">>}

Init ==
    /\ search = NoParam
    /\ hostname \in PageHosts
    /\ tenantResult = TenantError
    /\ accessToken \in StoredSessions
    /\ refreshTokenStored = (accessToken # NoToken)
    /\ userStored = (accessToken # NoToken)
    /\ isAuthenticated = (accessToken # NoToken)   \* AuthService._checkAuthState
    /\ currentUser = (accessToken # NoToken)
    /\ tokenRefreshed = FALSE
    /\ nextTok = 2
    /\ inflight = [o \in Origins |-> 0]
    /\ icVersion \in {1, 2}
    /\ isRefreshing = FALSE
    /\ refreshTokenSubject = 0
    /\ req = [r \in Reqs |-> IdleReq]
    /\ constructed = FALSE
    /\ sockets = <<>>
    /\ refreshFailed = FALSE
    /\ lateIssue = FALSE
    /\ prevRooms = {}
    /\ connectedOnce = FALSE
    /\ dashMounted = FALSE
    /\ snapshots = 0
    /\ requests = <<>>
    /\ lastEvent = NoEvent
    /\ furthest = [id \in ReqIds |-> 0]
    /\ InitExt

Next ==
    \/ Login
    \/ Logout
    \/ AutoRefreshToken
    \/ TimePasses
    \/ \E o \in Origins : RefreshSucceeds(o)
    \/ \E o \in Origins : RefreshFails(o)
    \/ \E r \in Reqs : Intercept(r)
    \/ \E r \in Reqs : Respond(r)
    \/ \E r \in Reqs : Respond401(r)
    \/ \E r \in Reqs : RefreshSucceedsIc(r)
    \/ \E r \in Reqs : RefreshFailsIc(r)
    \/ \E r \in Reqs : ResentFails(r)
    \/ Construct
    \/ Disconnect
    \/ \E i \in 1..Len(sockets) : Connect(i)
    \/ \E i \in 1..Len(sockets) : TransportLoss(i)
    \/ \E i \in 1..Len(sockets) : ReconnectFailed(i)
    \/ \E i \in 1..Len(sockets) : ConnectErrorAuth(i)
    \/ \E i \in 1..Len(sockets) : ErrorEventAuth(i)
    \/ \E i \in 1..Len(sockets) : \E c \in BOOLEAN : AuthErrorEvent(i, c)

Spec == Init /\ [][Next]_vars

(***************************************************************************)
(* The realtime channel with its rooms and the waiter dashboard, without   *)
(* the HTTP requests of the interceptor.                                   *)
(***************************************************************************)
\* the answers of GET /api/requests/active-db the channel specification uses
ChannelSnapshots == {<<>>, <<[id |-> 1, status |-> "pending"]>>}

InitRooms ==
    /\ Init
    /\ icVersion = 2
    /\ accessToken.kind \in {"none", "valid", "expired"}

NextRooms ==
    \/ Login
    \/ Logout
    \/ \E o \in {"init", "handler"} : RefreshSucceeds(o)
    \/ \E o \in {"init", "handler"} : RefreshFails(o)
    \/ Construct
    \/ Disconnect
    \/ \E i \in 1..Len(sockets) : Connect(i)
    \/ \E i \in 1..Len(sockets) : TransportLoss(i)
    \/ \E i \in 1..Len(sockets) : ReconnectFailed(i)
    \/ \E i \in 1..Len(sockets) : ConnectErrorAuth(i)
    \/ \E i \in 1..Len(sockets) : ErrorEventAuth(i)
    \/ \E i \in 1..Len(sockets) : \E c \in BOOLEAN : AuthErrorEvent(i, c)
    \/ \E g \in BOOLEAN : JoinTable(g)
    \/ JoinAdminRoom
    \/ DashboardInit
    \/ DashboardDestroy
    \/ \E S \in ChannelSnapshots : SnapshotSucceeds(S)
    \/ SnapshotFails

SpecRooms == InitRooms /\ [][NextRooms]_vars

(***************************************************************************)
(* The channel on pages with and without a tenant: construction, sessions, *)
(* the refused handshake as the one auth error, rooms and the dashboard.   *)
(***************************************************************************)
NextTenancy ==
    \/ Login
    \/ Logout
    \/ \E o \in {"init", "handler"} : RefreshSucceeds(o)
    \/ \E o \in {"init", "handler"} : RefreshFails(o)
    \/ Construct
    \/ Disconnect
    \/ \E i \in 1..Len(sockets) : Connect(i)
    \/ \E i \in 1..Len(sockets) : TransportLoss(i)
    \/ \E i \in 1..Len(sockets) : ConnectErrorAuth(i)
    \/ \E g \in BOOLEAN : JoinTable(g)
    \/ JoinAdminRoom
    \/ DashboardInit
    \/ DashboardDestroy

SpecTenancy == InitRooms /\ [][NextTenancy]_vars

(***************************************************************************)
(* The request collection of a dashboard on an established connection.     *)
(***************************************************************************)
InitStore ==
    /\ search = NoParam
    /\ hostname = <<"a", "localhost">>
    /\ tenantResult = TenantError
    /\ accessToken = [id |-> 1, kind |-> "valid"]
    /\ refreshTokenStored = TRUE
    /\ userStored = TRUE
    /\ isAuthenticated = TRUE
    /\ currentUser = TRUE
    /\ tokenRefreshed = FALSE
    /\ nextTok = 2
    /\ inflight = [o \in Origins |-> 0]
    /\ icVersion = 2
    /\ isRefreshing = FALSE
    /\ refreshTokenSubject = 0
    /\ req = [r \in Reqs |-> IdleReq]
    /\ constructed = TRUE
    /\ sockets = <<[NewSocket(1, "a", TRUE) EXCEPT !.state = "connected"]>>
    /\ refreshFailed = FALSE
    /\ lateIssue = FALSE
    /\ prevRooms = {}
    /\ connectedOnce = TRUE
    /\ dashMounted = FALSE
    /\ snapshots = 0
    /\ requests = <<>>
    /\ lastEvent = NoEvent
    /\ furthest = [id \in ReqIds |-> 0]
    /\ InitExt

NextStore ==
    \/ DashboardInit
    \/ DashboardDestroy
    \/ \E S \in Snapshots : SnapshotSucceeds(S)
    \/ SnapshotFails
    \/ \E i \in 1..Len(sockets) :
          \E e \in [id : ReqIds, status : {"pending"}] : NewRequest(i, e)
    \/ \E i \in 1..Len(sockets) : \E e \in Entities : RequestUpdated(i, e)

SpecStore == InitStore /\ [][NextStore]_vars

(***************************************************************************)
(* The request collection with a second consumer of the event streams.     *)
(***************************************************************************)
NextEvents ==
    \/ NextStore
    \/ \E c \in Consumers, E \in DashEvents : Subscribe(c, E)
    \/ \E c \in Consumers, E \in DashEvents : Unsubscribe(c, E)

SpecEvents == InitStore /\ [][NextEvents]_vars

(***************************************************************************)
(* extractTenantFromUrl over every query and host of the bounded alphabet  *)
(***************************************************************************)
InitTenant ==
    /\ search \in Params
    /\ hostname \in Hosts
    /\ tenantResult = [ok |-> FALSE, val |-> "unset"]
    /\ accessToken = NoToken
    /\ refreshTokenStored = FALSE
    /\ userStored = FALSE
    /\ isAuthenticated = FALSE
    /\ currentUser = FALSE
    /\ tokenRefreshed = FALSE
    /\ nextTok = 2
    /\ inflight = [o \in Origins |-> 0]
    /\ icVersion = 2
    /\ isRefreshing = FALSE
    /\ refreshTokenSubject = 0
    /\ req = [r \in Reqs |-> IdleReq]
    /\ constructed = FALSE
    /\ sockets = <<>>
    /\ refreshFailed = FALSE
    /\ lateIssue = FALSE
    /\ prevRooms = {}
    /\ connectedOnce = FALSE
    /\ dashMounted = FALSE
    /\ snapshots = 0
    /\ requests = <<>>
    /\ lastEvent = NoEvent
    /\ furthest = [id \in ReqIds |-> 0]
    /\ InitExt

SpecTenant == InitTenant /\ [][ExtractTenant]_vars

(***************************************************************************)
(* CustomerStateService under its callers, the clock and page reloads.     *)
(***************************************************************************)
TableIds == {1}
CustReqIds == {1, 2}
StatusTexts == {"sent", "coming"}
RequestTypes == {"call_waiter", "custom"}
Notes == {"null", "note"}
Steps == {10, 21}

\* a customer's page on a tenant host before any service is constructed;
\* sessionStorage is empty or holds an item that does not parse
InitAnon ==
    /\ search = NoParam
    /\ hostname = <<"a", "localhost">>
    /\ tenantResult = TenantError
    /\ accessToken = NoToken
    /\ refreshTokenStored = FALSE
    /\ userStored = FALSE
    /\ isAuthenticated = FALSE
    /\ currentUser = FALSE
    /\ tokenRefreshed = FALSE
    /\ nextTok = 2
    /\ inflight = [o \in Origins |-> 0]
    /\ icVersion = 2
    /\ isRefreshing = FALSE
    /\ refreshTokenSubject = 0
    /\ req = [r \in Reqs |-> IdleReq]
    /\ constructed = FALSE
    /\ sockets = <<>>
    /\ refreshFailed = FALSE
    /\ lateIssue = FALSE
    /\ prevRooms = {}
    /\ connectedOnce = FALSE
    /\ dashMounted = FALSE
    /\ snapshots = 0
    /\ requests = <<>>
    /\ lastEvent = NoEvent
    /\ furthest = [id \in ReqIds |-> 0]

InitSession == InitAnon /\ InitExtFrom({NoRecord, Corrupt})

NextSession ==
    \/ CustConstruct
    \/ RunEffect
    \/ \E tb \in TableIds : SetTable(tb)
    \/ \E id \in CustReqIds, ty \in RequestTypes, n \in Notes : SetRequest(id, ty, n)
    \/ \E st \in StatusTexts : UpdateStatus(st)
    \/ CompleteRequestState
    \/ ClearRequestState
    \/ ClearState
    \/ \E d \in Steps : Tick(d)
    \/ ReloadCustomer

SpecSession == InitSession /\ [][NextSession]_vars

(***************************************************************************)
(* The customer page: both services, the channel, the page's handlers and  *)
(* the waiter dashboard as the view navigated to.                          *)
(***************************************************************************)
InitCustomer == InitAnon /\ InitExt

NextCustomer ==
    \/ Construct
    \/ CustConstruct
    \/ RunEffect
    \/ \E i \in 1..Len(sockets) : Connect(i)
    \/ \E tb \in TableIds : CustomerInit(tb)
    \/ \E i \in 1..Len(sockets), id \in CustReqIds, ty \in RequestTypes, n \in Notes :
          RequestSent(i, id, ty, n)
    \/ \E i \in 1..Len(sockets), st \in EventStatuses : RequestStatus(i, st)
    \/ CancelRequest
    \/ CompleteRequest
    \/ CustomerDestroy
    \/ DashboardInit
    \/ SnapshotFails
    \/ DashboardDestroy

SpecCustomer == InitCustomer /\ [][NextCustomer]_vars

(***************************************************************************)
(* RateLimitService under its callers and the clock.                       *)
(***************************************************************************)
NextRate ==
    \/ \E k \in RateKeys, l \in Limits : CheckRateLimit(k, l)
    \/ \E k \in RateKeys : ResetRateLimit(k)
    \/ ResetAllRateLimits
    \/ CleanupExpiredEntries
    \/ RateTick

SpecRate == InitCustomer /\ [][NextRate]_vars

(***************************************************************************)
(* The recovery of the channel from rejected tokens: every token comes     *)
(* from a refresh the channel's own handlers asked for.                    *)
(***************************************************************************)
ChannelOrigins == {"init", "handler"}

NextRecovery ==
    \/ Construct
    \/ \E i \in 1..Len(sockets) : Connect(i)
    \/ \E i \in 1..Len(sockets) : ConnectErrorAuth(i)
    \/ \E i \in 1..Len(sockets) : ErrorEventAuth(i)
    \/ \E i \in 1..Len(sockets) : \E c \in BOOLEAN : AuthErrorEvent(i, c)
    \/ \E o \in ChannelOrigins : RefreshSucceeds(o)
    \/ \E o \in ChannelOrigins : RefreshFails(o)

SpecRecovery == InitRooms /\ [][NextRecovery]_vars

(***************************************************************************)
(* The local expiry checks over every stored session.                      *)
(***************************************************************************)
NextExpiry ==
    \/ Login
    \/ Logout
    \/ AutoRefreshToken
    \/ TimePasses
    \/ Construct
    \/ \E o \in Origins : RefreshSucceeds(o)
    \/ \E o \in Origins : RefreshFails(o)

SpecExpiry == Init /\ [][NextExpiry]_vars

(***************************************************************************)
(* AuthInterceptor alone, second version of the file, on a stored session. *)
(* Every call on the wire is answered in the end: weak fairness of the     *)
(* backend's answers to each request.                                      *)
(***************************************************************************)
InitIc ==
    /\ Init
    /\ icVersion = 2
    /\ accessToken.kind = "valid"

Answer(r) ==
    \/ Respond(r)
    \/ Respond401(r)
    \/ RefreshSucceedsIc(r)
    \/ RefreshFailsIc(r)
    \/ ResentFails(r)

NextIcFair ==
    \/ \E r \in Reqs : Intercept(r)
    \/ \E r \in Reqs : Answer(r)

SpecIcFair ==
    InitIc /\ [][NextIcFair]_vars /\ \A r \in Reqs : WF_vars(Answer(r))

\* the same with requests that skip the interceptor and with callers that
\* unsubscribe
NextIc ==
    \/ NextIcFair
    \/ \E r \in Reqs : InterceptSkip(r)
    \/ \E r \in Reqs : Respond401Skip(r)
    \/ \E r \in Reqs : Cancel(r)

SpecIc == InitIc /\ [][NextIc]_vars

(***************************************************************************)
(* The customer page's handlers under status events about any request.     *)
(***************************************************************************)
NextStatus ==
    \/ Construct
    \/ CustConstruct
    \/ RunEffect
    \/ \E i \in 1..Len(sockets) : Connect(i)
    \/ \E tb \in TableIds : CustomerInit(tb)
    \/ \E i \in 1..Len(sockets), id \in CustReqIds, ty \in RequestTypes, n \in Notes :
          RequestSent(i, id, ty, n)
    \/ \E i \in 1..Len(sockets), id \in CustReqIds, st \in EventStatuses :
          RequestStatusOf(i, id, st)
    \/ CancelRequest

SpecStatus == InitCustomer /\ [][NextStatus]_vars

(***************************************************************************)
(* The customer page opened on one table after another in the same tab.    *)
(***************************************************************************)
RouteTables == {1, 2}

NextRestore ==
    \/ Construct
    \/ CustConstruct
    \/ RunEffect
    \/ \E i \in 1..Len(sockets) : Connect(i)
    \/ \E tb \in RouteTables : CustomerInit(tb)
    \/ \E i \in 1..Len(sockets), id \in CustReqIds, ty \in RequestTypes, n \in Notes :
          RequestSent(i, id, ty, n)
    \/ CancelRequest
    \/ ReloadPage

SpecRestore == InitCustomer /\ [][NextRestore]_vars

(***************************************************************************)
(* Subscriptions to the event streams across a reconnect after the server  *)
(* rejected the token: auth_error, refreshToken, reconnect.                *)
(***************************************************************************)
NextResubscribe ==
    \/ DashboardInit
    \/ DashboardDestroy
    \/ SnapshotFails
    \/ \E c \in Consumers, E \in DashEvents : Subscribe(c, E)
    \/ \E c \in Consumers, E \in DashEvents : Unsubscribe(c, E)
    \/ \E i \in 1..Len(sockets) : \E c \in BOOLEAN : AuthErrorEvent(i, c)
    \/ RefreshSucceeds("handler")
    \/ \E i \in 1..Len(sockets) : Connect(i)
    \/ \E i \in 1..Len(sockets) :
          \E e \in [id : ReqIds, status : {"pending"}] : NewRequest(i, e)

SpecResubscribe == InitStore /\ [][NextResubscribe]_vars

(***************************************************************************)
(* Properties                                                              *)
(***************************************************************************)
LiveSockets == {i \in 1..Len(sockets) : IsLive(sockets[i])}

\* C1: at most one POST /api/auth/refresh is in flight at any time, whoever
\* asked for it (interceptor, socket handlers, _initializeSocket,
\* autoRefreshToken)
C1_OneRefreshInFlight == InFlightTotal(Cur, req) <= 1

\* C2: of the requests on the wire when the first of them gets its 401, none
\* makes a second call to AuthService.refreshToken; each is re-sent with the
\* token the refresh returned
C2_OneCallPerBatch ==
    \A r \in Reqs : req[r].covered => req[r].role # "first"

Anonymous ==
    /\ accessToken = NoToken /\ ~refreshTokenStored /\ ~userStored
    /\ ~isAuthenticated /\ ~currentUser

\* C3: a failed refresh leaves the session Anonymous, and no refresh call is
\* issued after it until a login succeeds
C3_FailedRefreshIsFatal ==
    [][/\ (~refreshFailed /\ refreshFailed') => Anonymous'
       /\ ~lateIssue']_vars

\* C4: at most one socket made by SocketService is connected or connecting
C4_OneLiveSocket == Cardinality(LiveSockets) <= 1

\* C7: every connection attempt carries the access token current at the time
\* of the attempt, and once a session is established the connection _socket
\* holds carries its access token
C7_CredentialsCurrent ==
    (Len(sockets) > 0 /\ IsLive(sockets[Len(sockets)]) /\ accessToken # NoToken)
        => sockets[Len(sockets)].tok = accessToken.id

\* the socket SocketService refers to
HasSocket == Len(sockets) > 0
CurSocket == sockets[Len(sockets)]

\* C5: once the channel is connected again after a reconnect (reconnect() or
\* the transport's own), every room joined on the previous connection is
\* joined on the new one; an application event may arrive in any state in
\* which the channel is connected, so the rooms are back in all of them
C5_RoomsRejoined ==
    (HasSocket /\ CurSocket.state = "connected") => prevRooms \subseteq CurSocket.joined

\* C6: when the channel of a mounted dashboard comes up again after an
\* earlier connection, the handler of that step asks for the active-request
\* snapshot
C6_SnapshotAfterReconnect ==
    [][(/\ dashMounted /\ connectedOnce /\ HasSocket
        /\ Len(sockets') = Len(sockets)
        /\ CurSocket.state = "connecting"
        /\ sockets'[Len(sockets)].state = "connected")
       => snapshots' = snapshots + 1]_vars

\* C8: while the tenant of the page does not resolve, no socket of
\* SocketService is connecting or connected, none was made to connect or
\* carries a tenant, and no join is sent or waiting to be sent; a socket that
\* connects always carries the tenant the page resolves to
C8_NoTenantNoChannel ==
    /\ \A i \in 1..Len(sockets) :
          IsLive(sockets[i]) => (Tenant.ok /\ sockets[i].tenant = Tenant.val)
    /\ ~Tenant.ok =>
          \A i \in 1..Len(sockets) :
             /\ ~sockets[i].auto
             /\ sockets[i].tenant = NoTenant
             /\ sockets[i].joined = {}
             /\ sockets[i].buf = {}

\* the tenant does not resolve, the service holds its unconnected socket, and
\* the dashboard of a signed-in waiter has called joinWaiterRoom
C8_Witness ==
    /\ ~Tenant.ok
    /\ constructed /\ HasSocket /\ CurSocket.state = "idle"
    /\ dashMounted /\ isAuthenticated

\* C9: extractTenantFromUrl returns the non-empty tenant parameter when there
\* is one; otherwise the first label of a host that has a subdomain, which an
\* IPv4 address has not; otherwise it fails; and what it returns is never
\* empty, 'www' or 'localhost'
C9_TenantPrecedence ==
    tenantResult.val # "unset" =>
        /\ (search # NoParam /\ search # "") => tenantResult = TenantOk(search)
        /\ tenantResult.ok => tenantResult.val \notin {"", "www", "localhost"}
        /\ (tenantResult.ok /\ (search = NoParam \/ search = ""))
              => (tenantResult.val = hostname[1] /\ Len(hostname) >= 2)
        /\ ((search = NoParam \/ search = "") /\ IsIpAddress(hostname))
              => ~tenantResult.ok

\* C10: right after the dashboard has processed a request_updated event with
\* status completed or cancelled, no entry of the collection, and so none of
\* the pending and acknowledged views, has the id of the event
C10_TerminalRemoval ==
    (lastEvent.name = "request_updated"
        /\ lastEvent.status \in {"completed", "cancelled"})
    => /\ CountId(requests, lastEvent.id) = 0
       /\ CountId(pendingRequests, lastEvent.id) = 0
       /\ CountId(acknowledgedRequests, lastEvent.id) = 0

\* a terminal update has just been processed for an id that had several
\* entries in the collection
C10_Witness ==
    /\ lastEvent.name = "request_updated"
    /\ lastEvent.status \in {"completed", "cancelled"}
    /\ lastEvent.had >= 2
    /\ Len(requests) >= 1

\* C11: the collection never holds two entries with the same request id
C11_UniqueIds == \A id \in ReqIds : CountId(requests, id) <= 1

\* C12: right after the dashboard has processed a request_updated event with
\* a status other than completed or cancelled, the collection holds exactly
\* one entry with the id of the event, and it is the received entity, whether
\* or not the id was in the collection before
C12_UpdateIsUpsert ==
    (lastEvent.name = "request_updated"
        /\ lastEvent.status \notin {"completed", "cancelled"})
    => /\ CountId(requests, lastEvent.id) = 1
       /\ \E i \in 1..Len(requests) :
             requests[i] = [id |-> lastEvent.id, status |-> lastEvent.status]

\* C13: the status shown for an id only moves forward: no entry of the
\* collection is behind the furthest status the collection has shown for its
\* id, and an id removed as completed or cancelled is not in the collection
C13_StatusMovesForward ==
    \A i \in 1..Len(requests) :
        Rank(requests[i].status) >= furthest[requests[i].id]

\* C14: the success branch of _loadExistingRequests leaves exactly the
\* requests of the snapshot in the collection, nothing of what it held
\* before, and applying the same snapshot again changes nothing
C14_SnapshotReplaces ==
    [][\A S \in Snapshots :
          SnapshotSucceeds(S) =>
             /\ requests' = S
             /\ applySnapshot(requests', S) = requests']_vars

\* a snapshot has just been applied to a collection that held entries
C14_Witness ==
    /\ lastEvent.name = "snapshot"
    /\ lastEvent.had >= 1
    /\ Len(requests) >= 1

\* C15: a stored customer record always has a currentRequestId, and when the
\* signals hold no currentRequestId and no run of the auto-save effect is
\* outstanding, nothing is stored
C15_StoredOnlyWithRequest ==
    custConstructed =>
        /\ custStored.kind # "none" =>
              (custStored.kind = "record" /\ custStored.rec.currentRequestId # 0)
        /\ (custMem.currentRequestId = 0 /\ ~effectPending) =>
              custStored.kind = "none"

\* a request that was active has been dropped, and the effect
\* has run since
C15_Witness ==
    /\ custConstructed
    /\ lastCust.op \in {"completeRequest", "clearRequestState", "clearState"}
    /\ lastCust.active
    /\ custMem.currentRequestId = 0
    /\ ~effectPending
    /\ custStored.kind = "none"

\* C16: the constructor discards a stored record older than 30 minutes,
\* leaving the signals empty and nothing stored, and otherwise (30 minutes
\* exactly included) sets the six signals to the stored values and leaves
\* the record as it is
C16_RestoreByAge ==
    [][(~custConstructed /\ custConstructed' /\ custStored.kind = "record") =>
          IF now - custStored.rec.timestamp > STATE_EXPIRY_MIN
          THEN custMem' = CustDefaults /\ custStored' = NoRecord
          ELSE custMem' = custStored.rec /\ custStored' = custStored]_vars

\* a record exactly 30 minutes old has just been restored
C16_Witness ==
    /\ lastCust.op = "restore"
    /\ custMem.currentRequestId # 0
    /\ custStored = Record(custMem)
    /\ now - custMem.timestamp = STATE_EXPIRY_MIN

\* C17: after the customer's active request has ended, by a request_status
\* event with status completed or cancelled or by the customer's
\* cancelRequest or completeRequest, there is no current request, nothing is
\* stored and the timer is off
C17_TerminalClearsSession ==
    (/\ lastCust.op \in {"completed", "cancelled", "cancelRequest", "completeRequest"}
     /\ lastCust.active)
    => /\ custMem.currentRequestId = 0
       /\ custStored.kind = "none"
       /\ ~timerOn

\* C19: ngOnDestroy of the customer page or of the waiter dashboard removes
\* the view's listeners, leaves no timer running, and leaves the state of the
\* shared socket as it was
C19_DestroyKeepsConnection ==
    [][(CustomerDestroy \/ DashboardDestroy) =>
          LET n == Len(sockets) IN
          n > 0 =>
             /\ Len(sockets') = n
             /\ CustomerDestroy =>
                   /\ \A e \in CustEvents : <<"cust", e>> \notin sockets'[n].lst
                   /\ ~timerOn'
             /\ DashboardDestroy =>
                   \A e \in DashEvents : <<"dash", e>> \notin sockets'[n].lst
             /\ sockets'[n].state = sockets[n].state]_vars

\* C20: when a subscription to on(E) is unsubscribed, every other listener
\* registered on the socket stays registered
C20_UnsubscribeLeavesOthers ==
    [][\A c \in Consumers, E \in DashEvents :
          Unsubscribe(c, E) =>
             \A p \in sockets[Len(sockets)].lst :
                p # <<c, E>> => p \in sockets'[Len(sockets)].lst]_vars

\* the calls made for a key since its last reset, in order
CallsOf(key) == SelectSeq(rateCalls, LAMBDA c : c.key = key)

\* the call that opened the window the j-th call of a key falls in: the
\* first call, or the first one later than Window after the opening call
RECURSIVE Opener(_, _)
Opener(h, j) ==
    IF j = 1 THEN 1
    ELSE LET o == Opener(h, j - 1) IN
         IF h[j].t > h[o].t + Window THEN j ELSE o

\* C18: for every key, a call of checkRateLimit returned true exactly when
\* it was among the first `limit` calls of its window, the window being
\* opened by the key's first call or the first call after the previous
\* window had elapsed, whatever was called for other keys
C18_FixedWindowPerKey ==
    \A k \in RateKeys :
       LET h == CallsOf(k) IN
       \A j \in 1..Len(h) : h[j].ok <=> (j - Opener(h, j) + 1 <= h[j].limit)

\* a key was called four times with limit 3 inside one window, giving true
\* three times and then false, and a fifth time after the window, giving
\* true
C18_Witness ==
    \E k \in RateKeys :
       LET h == CallsOf(k) IN
       /\ Len(h) = 5
       /\ \A j \in 1..5 : h[j].limit = 3
       /\ \A j \in 1..3 : h[j].ok
       /\ ~h[4].ok
       /\ h[4].t <= h[1].t + Window
       /\ h[5].t > h[1].t + Window
       /\ h[5].ok

\* C21: once setRequest or updateStatus has returned with a current request,
\* the stored record equals the signals, in every state up to the next
\* operation or reload
C21_PersistedEqualsMemory ==
    (/\ custConstructed
     /\ lastCust.op \in {"setRequest", "updateStatus"}
     /\ custMem.currentRequestId # 0)
    => custStored = Record(custMem)

\* the refresh calls the channel's handlers have in flight
ChannelRefreshes(f) == f["init"] + f["handler"]

\* C22: the cycle of refresh, rebuilt connection and rejection ends after a
\* bounded number of rounds: once every token of the bound has been issued
\* by successful refreshes, a further rejection starts no further refresh
C22_RecoveryBounded ==
    [][nextTok > MaxTok =>
          ChannelRefreshes(inflight') <= ChannelRefreshes(inflight)]_vars

\* the session with its access token taken as one whose exp lies in the past
AsExpired(s) == [s EXCEPT !.accessToken.kind = "expired"]

\* C23: for an access token that does not decode, _isTokenExpired is true,
\* isLoggedIn is false, and autoRefreshToken does what it does for a token
\* whose exp lies in the past
C23_DecodeFailureIsExpired ==
    accessToken.kind = "malformed" =>
       /\ IsTokenExpired(accessToken)
       /\ ~isLoggedIn(accessToken)
       /\ [autoRefreshToken(Cur) EXCEPT !.accessToken = NoToken]
          = [autoRefreshToken(AsExpired(Cur)) EXCEPT !.accessToken = NoToken]

\* every call of the history was made with limit L
SameLimit(h, L) == \A j \in 1..Len(h) : h[j].limit = L

\* the calls of the history that returned true at a time in [a, a + Window]
AdmittedWithin(h, a) ==
    Cardinality({j \in 1..Len(h) : h[j].ok /\ a <= h[j].t /\ h[j].t <= a + Window})

\* the tightest burst across a window boundary: the window's opening call,
\* L - 1 more calls at the window's last instant, and L calls at the first
\* instant at which a call opens the next window
StraddlingBurst(h, L) ==
    /\ SameLimit(h, L)
    /\ Len(h) = 2 * L
    /\ \A j \in 2..L : h[j].t = h[1].t + Window
    /\ \A j \in (L + 1)..(2 * L) : h[j].t = h[1].t + Window + 1

\* C24 as stated: with one limit, at most 2 x limit calls return true in any
\* interval of length Window, and the burst across a window boundary has
\* 2 x limit of them in one such interval
C24_BurstReachesTwiceLimit ==
    \A k \in RateKeys, L \in Limits :
       LET h == CallsOf(k) IN
       /\ SameLimit(h, L) =>
             \A j \in 1..Len(h) : AdmittedWithin(h, h[j].t) <= 2 * L
       /\ StraddlingBurst(h, L) =>
             \E j \in 1..Len(h) : AdmittedWithin(h, h[j].t) = 2 * L

\* C24 amended: with one limit, at most 2 x limit - 1 calls return true in
\* any interval of length Window (the call that opens a window and the call
\* that opens the next one are more than Window apart)
C24_BurstBelowTwiceLimit ==
    \A k \in RateKeys, L \in Limits :
       LET h == CallsOf(k) IN
       SameLimit(h, L) =>
          \A j \in 1..Len(h) : AdmittedWithin(h, h[j].t) <= 2 * L - 1

\* a burst across a window boundary has 2 x limit - 1 admitted calls in
\* one interval of length Window, which is more than limit
C24_Witness ==
    \E k \in RateKeys, L \in Limits :
       LET h == CallsOf(k) IN
       /\ StraddlingBurst(h, L)
       /\ \A j \in 1..Len(h) : h[j].ok
       /\ \E j \in 1..Len(h) : AdmittedWithin(h, h[j].t) = 2 * L - 1
       /\ 2 * L - 1 > L

\* C25: a request that waits on _refreshTokenSubject completes in the end,
\* with the answer to its re-sent request or with an error
C25_WaitersComplete ==
    \A r \in Reqs : (req[r].st = "waiting") ~> (req[r].st \in {"done", "failed"})

\* C26: _isRefreshing is set only while the refresh call of the request that
\* set it is in flight
C26_FlagMeansRefreshInFlight ==
    isRefreshing => \E r \in Reqs : req[r].st = "refreshing"

\* the states of a request that has completed or was given up
Settled == {"done", "failed", "cancelled"}

\* C27: a request is re-sent at most once: a re-sent request only becomes
\* settled, a settled request stays as it is, and the step that fails a
\* re-sent request starts no refresh and re-sends nothing; a request that
\* skipped the interceptor is never held back or re-sent, and its failure
\* starts no refresh
C27_ResentAtMostOnce ==
    [][\A r \in Reqs :
          /\ req[r].st \in Settled => req'[r] = req[r]
          /\ (req[r].st = "resent" /\ req'[r].st # "resent") =>
                /\ req'[r].st \in Settled
                /\ req'[r].st = "failed" =>
                      /\ isRefreshing' => isRefreshing
                      /\ InFlightTotal(Cur, req)' <= InFlightTotal(Cur, req)
                      /\ \A x \in Reqs : req'[x].st = "resent" => req[x].st = "resent"
          /\ (req[r].role = "skip" /\ req'[r].st # req[r].st) =>
                /\ req'[r].st \in Settled
                /\ isRefreshing' = isRefreshing
                /\ InFlightTotal(Cur, req)' <= InFlightTotal(Cur, req)]_vars

\* a request that waited for the refresh was re-sent and failed again, and
\* no refresh is running
C27_Witness ==
    \E r \in Reqs :
       /\ req[r].st = "failed"
       /\ req[r].role = "waiter"
       /\ ~isRefreshing
       /\ InFlightTotal(Cur, req) = 0

\* the step gives up an established connection for a new one
NewConnection ==
    /\ Len(sockets) > 0
    /\ Len(sockets') > 0
    /\ sockets[Len(sockets)].state = "connected"
    /\ sockets'[Len(sockets')].state = "connecting"

\* C28: the listeners of the dashboard's subscriptions are registered on the
\* new connection after a reconnect while the dashboard stays subscribed,
\* and when the dashboard unsubscribes subscriptions it made on an earlier
\* connection, the listeners on the current connection stay registered
C28_SubscriptionsFollowReconnect ==
    [][/\ (NewConnection /\ dashMounted /\ dashMounted') =>
             \A E \in DashEvents :
                <<"dash", E>> \in sockets[Len(sockets)].lst =>
                   <<"dash", E>> \in sockets'[Len(sockets')].lst
       /\ (DashboardDestroy /\ Len(sockets) > 0
            /\ \A E \in DashEvents : <<"dash", E>> \notin sockets[Len(sockets)].lst) =>
             sockets'[Len(sockets')].lst = sockets[Len(sockets)].lst]_vars

\* C29: a 'request_status' event about a request other than the current
\* one, or one that arrives while no request is active, changes neither the
\* session held in memory, nor the stored one, nor the timer
C29_ForeignStatusIgnored ==
    [][\A i \in 1..Len(sockets), id \in CustReqIds, st \in EventStatuses :
          (RequestStatusOf(i, id, st) /\ id # custMem.currentRequestId) =>
             /\ custMem' = custMem
             /\ custStored' = custStored
             /\ timerOn' = timerOn]_vars

\* C30: when the page is opened for a table while the restored session
\* holds an active request of another table, the previous request is not
\* reported active, and after the step the session does not hold the new
\* table id together with the other table's request id
C30_RestoredOnlyOnItsTable ==
    [][\A tb \in RouteTables :
          (/\ CustomerInit(tb)
           /\ custMem.currentRequestId # 0
           /\ custMem.tableId \notin {0, tb}) =>
             /\ ~lastCust'.active
             /\ ~(/\ custMem'.tableId = tb
                  /\ custMem'.currentRequestId = custMem.currentRequestId)]_vars

====
